---------------------------- MODULE Spec2Model ----------------------------
(***************************************************************************)
(* A model of etf_tracker.py: one top-to-bottom run of the dashboard       *)
(* script.  The run collects the sidebar inputs, validates the weights,    *)
(* downloads the closing prices, computes the return series and the risk   *)
(* metrics, and renders four metric cards, two charts and three exports.   *)
(*                                                                         *)
(* Numbers.  A float is modelled as a pair <<n, d>>: for d > 0 the exact   *)
(* rational n/d in lowest terms, and for d = 0 one of the three special    *)
(* values NaN = <<0,0>>, +inf = <<1,0>>, -inf = <<-1,0>>.  A weight is     *)
(* kept as the rational its literal denotes.  The one comparison of the    *)
(* script that rounding decides, the 0.001 tolerance of line 38, is        *)
(* computed in binary64: literals, sum and difference are rounded to       *)
(* nearest as the interpreter rounds them.  The return and risk            *)
(* arithmetic of lines 48-62 follows IEEE 754 on the special values and    *)
(* is exact on the rationals, so it differs from the script's by rounding  *)
(* wherever that is not exact.  sqrt is not a rational function: the       *)
(* volatility is kept as its radicand (the annualised variance) and a      *)
(* finite Sharpe ratio as the unevaluated quotient.                        *)
(*                                                                         *)
(* Libraries.  What pct_change() does with a missing price depends on the  *)
(* pandas release: before 3.0 the default pads the gap with the last       *)
(* price, from 3.0 on it does not.  Both are outcomes of line 49.          *)
(*                                                                         *)
(* Text.  The ticker input is a sequence of characters.  The weight input  *)
(* is a sequence of lexemes: a comma, a blank, a maximal numeric literal   *)
(* or a run of non-numeric characters.                                     *)
(***************************************************************************)
EXTENDS Integers, Sequences, FiniteSets, TLC

VARIABLES
    pc,                           \* the line group the run is about to execute
    error,                        \* the uncaught exception that ended the run ("" if none)
    etf_list,                     \* line 26
    period,                       \* line 28
    weights_list,                 \* line 31
    messages,                     \* st.error messages shown, in order
    requests,                     \* yf.download calls made, in order
    adj_close,                    \* line 46: [columns, values]
    daily_returns,                \* line 49
    cumulative_returns,           \* line 50
    portfolio_daily_returns,      \* line 53
    portfolio_cumulative_returns, \* line 54
    metrics,                      \* lines 57-62
    rendered                      \* metric cards, charts and exports rendered, in order

vars == <<pc, error, etf_list, period, weights_list, messages, requests,
          adj_close, daily_returns, cumulative_returns, portfolio_daily_returns,
          portfolio_cumulative_returns, metrics, rendered>>

---------------------------------------------------------------------------
(* Bounds of the model. *)

\* Longest ticker text, in characters.
MaxEtfsLen == 3

\* Longest weight text, in lexemes.
MaxWeightsLen == 3

\* Rows (dates) of a fetched price table.
NumDates == 3

---------------------------------------------------------------------------
(* Floats. *)

NaN == <<0, 0>>
PInf == <<1, 0>>
NInf == <<-1, 0>>
Zero == <<0, 1>>
One == <<1, 1>>

AbsInt(i) == IF i < 0 THEN -i ELSE i

SignInt(i) == IF i < 0 THEN -1 ELSE IF i > 0 THEN 1 ELSE 0

RECURSIVE GCD(_, _)
GCD(a, b) == IF b = 0 THEN a ELSE GCD(b, a % b)

\* n/d in lowest terms, d > 0.
Norm(n, d) ==
    LET g == GCD(AbsInt(n), d)
    IN  <<n \div g, d \div g>>

Rat(n, d) == Norm(n, d)

IsNaN(x) == x = NaN

IsFinite(x) == x[2] > 0

IsZero(x) == x = Zero

Neg(x) == <<-x[1], x[2]>>

Add(x, y) ==
    IF IsNaN(x) \/ IsNaN(y) THEN NaN
    ELSE IF ~IsFinite(x) /\ ~IsFinite(y) THEN (IF x = y THEN x ELSE NaN)
    ELSE IF ~IsFinite(x) THEN x
    ELSE IF ~IsFinite(y) THEN y
    ELSE LET g == GCD(x[2], y[2])
             l == (x[2] \div g) * y[2]
         IN  Norm(x[1] * (l \div x[2]) + y[1] * (l \div y[2]), l)

Sub(x, y) == Add(x, Neg(y))

Mul(x, y) ==
    IF IsNaN(x) \/ IsNaN(y) THEN NaN
    ELSE IF ~IsFinite(x) \/ ~IsFinite(y)
         THEN (IF IsZero(x) \/ IsZero(y) THEN NaN
               ELSE <<SignInt(x[1]) * SignInt(y[1]), 0>>)
    ELSE LET g1 == GCD(AbsInt(x[1]), y[2])
             g2 == GCD(AbsInt(y[1]), x[2])
         IN  Norm((x[1] \div g1) * (y[1] \div g2), (x[2] \div g2) * (y[2] \div g1))

\* numpy float division: x/0 is nan or +-inf (a RuntimeWarning, no exception).
Div(x, y) ==
    IF IsNaN(x) \/ IsNaN(y) THEN NaN
    ELSE IF IsZero(y) THEN (IF IsZero(x) THEN NaN ELSE <<SignInt(x[1]), 0>>)
    ELSE IF ~IsFinite(y) THEN (IF IsFinite(x) THEN Zero ELSE NaN)
    ELSE Mul(x, <<SignInt(y[1]) * y[2], AbsInt(y[1])>>)

\* x < y; false when either is NaN.
Lt(x, y) ==
    /\ ~IsNaN(x)
    /\ ~IsNaN(y)
    /\ x # y
    /\ IF IsFinite(x) /\ IsFinite(y) THEN Sub(x, y)[1] < 0
       ELSE x = NInf \/ y = PInf

Gt(x, y) == Lt(y, x)

Leq(x, y) == ~IsNaN(x) /\ ~IsNaN(y) /\ ~Lt(y, x)

AbsNum(x) == <<AbsInt(x[1]), x[2]>>

---------------------------------------------------------------------------
(* Binary64, for the comparison of line 38, which is decided by rounding.  *)
(* A double is [sign, hi, lo, exp] with the value                          *)
(* sign * (hi * 2^27 + lo) * 2^exp: sign is 1 or -1 and the significand    *)
(* hi * 2^27 + lo has exactly 53 bits, or everything is 0.  Sums and       *)
(* quotients are formed on 56-bit significands <<hi, lo>> (three extra     *)
(* bits, the lowest one sticky) and rounded to nearest, ties to even.      *)
(* Exponents are unbounded: no weight is near the overflow or the          *)
(* subnormal range.                                                        *)

Pow2(k) == 2 ^ k

Limb == Pow2(27)

\* The least hi of a 53-bit and of a 56-bit significand.
Hi53 == Pow2(25)

Hi56 == Pow2(28)

DZero == [sign |-> 0, hi |-> 0, lo |-> 0, exp |-> 0]

\* The number of binary digits of a natural number.
RECURSIVE BitLen(_)
BitLen(n) ==
    IF n < 2 THEN n
    ELSE IF n >= 256 THEN 8 + BitLen(n \div 256)
    ELSE 1 + BitLen(n \div 2)

BitLenWide(w) == IF w[1] > 0 THEN 27 + BitLen(w[1]) ELSE BitLen(w[2])

\* Sets the sticky bit when bits were lost.
Jam(w, lost) == IF lost /\ w[2] % 2 = 0 THEN <<w[1], w[2] + 1>> ELSE w

\* w * 2^k, for a result below 2^57.
RECURSIVE ShiftLeft(_, _)
ShiftLeft(w, k) ==
    IF k >= 27 THEN ShiftLeft(<<w[1] * Limb + w[2], 0>>, k - 27)
    ELSE <<w[1] * Pow2(k) + w[2] \div Pow2(27 - k), (w[2] % Pow2(27 - k)) * Pow2(k)>>

\* w \div 2^k, the sticky bit set when bits were lost.
RECURSIVE ShiftRightJam(_, _)
ShiftRightJam(w, k) ==
    IF k = 0 THEN w
    ELSE IF k >= 84 THEN Jam(<<0, 0>>, w # <<0, 0>>)
    ELSE IF k >= 27
         THEN ShiftRightJam(Jam(<<w[1] \div Limb, w[1] % Limb>>, w[2] # 0), k - 27)
    ELSE Jam(<<w[1] \div Pow2(k), (w[1] % Pow2(k)) * Pow2(27 - k) + w[2] \div Pow2(k)>>,
             w[2] % Pow2(k) # 0)

WideAdd(v, w) ==
    <<v[1] + w[1] + (v[2] + w[2]) \div Limb, (v[2] + w[2]) % Limb>>

WideLess(v, w) == v[1] < w[1] \/ (v[1] = w[1] /\ v[2] < w[2])

\* v - w for v >= w.
WideSub(v, w) ==
    IF v[2] >= w[2] THEN <<v[1] - w[1], v[2] - w[2]>>
    ELSE <<v[1] - w[1] - 1, v[2] + Limb - w[2]>>

\* The 56-bit significand of a double: three zero bits appended.
Widen(x) == ShiftLeft(<<x.hi, x.lo>>, 3)

\* sign * w * 2^e, w of exactly 56 bits, rounded to the nearest double.
RoundWide(sign, w, e) ==
    LET hi == w[1] \div 8
        lo == (w[1] % 8) * Pow2(24) + w[2] \div 8
        rest == w[2] % 8
        up == rest > 4 \/ (rest = 4 /\ lo % 2 = 1)
    IN  IF ~up THEN [sign |-> sign, hi |-> hi, lo |-> lo, exp |-> e + 3]
        ELSE IF lo + 1 < Limb THEN [sign |-> sign, hi |-> hi, lo |-> lo + 1, exp |-> e + 3]
        ELSE IF hi + 1 < 2 * Hi53 THEN [sign |-> sign, hi |-> hi + 1, lo |-> 0, exp |-> e + 3]
        ELSE [sign |-> sign, hi |-> Hi53, lo |-> 0, exp |-> e + 4]

\* sign * w * 2^e for any w below 2^57, brought to 56 bits and rounded.
NormRound(sign, w, e) ==
    IF w = <<0, 0>> THEN DZero
    ELSE IF w[1] >= 2 * Hi56 THEN RoundWide(sign, ShiftRightJam(w, 1), e + 1)
    ELSE RoundWide(sign, ShiftLeft(w, 56 - BitLenWide(w)), e - (56 - BitLenWide(w)))

\* One step of the binary expansion of a quotient: s = <<w, r, e>> stands for
\* (w + r/d) * 2^e, and the step moves at most c more bits of r/d into w, until
\* w has 56 bits (r * 2^c is below 2^31).
ExpandStep(s, d, c) ==
    IF s[1][1] >= Hi56 THEN s
    ELSE LET room == 56 - BitLenWide(s[1])
             n == IF s[1] # <<0, 0>> /\ room < c THEN room ELSE c
             v == ShiftLeft(s[1], n)
         IN  <<<<v[1], v[2] + (s[2] * Pow2(n)) \div d>>, (s[2] * Pow2(n)) % d, s[3] - n>>

ExpandSteps(s, d, c) ==
    ExpandStep(ExpandStep(ExpandStep(ExpandStep(ExpandStep(ExpandStep(ExpandStep(
        ExpandStep(s, d, c), d, c), d, c), d, c), d, c), d, c), d, c), d, c)

RECURSIVE Expand(_, _, _)
Expand(s, d, c) == IF s[1][1] >= Hi56 THEN s ELSE Expand(ExpandSteps(s, d, c), d, c)

\* The double nearest to a rational: what float() makes of a decimal literal,
\* and what the compiler makes of the literal 0.001.
ToDouble(x) ==
    IF x[1] = 0 THEN DZero
    ELSE LET q == AbsInt(x[1]) \div x[2]
             c == IF BitLen(x[2]) > 29 THEN 1
                  ELSE IF BitLen(x[2]) < 4 THEN 27
                  ELSE 31 - BitLen(x[2])
             s == Expand(<<<<q \div Limb, q % Limb>>, AbsInt(x[1]) % x[2], 0>>, x[2], c)
         IN  RoundWide(SignInt(x[1]), Jam(s[1], s[2] # 0), s[3])

DNeg(x) == [x EXCEPT !.sign = -x.sign]

DAbs(x) == [x EXCEPT !.sign = AbsInt(x.sign)]

\* x + y, rounded.
DAdd(x, y) ==
    IF x.sign = 0 THEN y
    ELSE IF y.sign = 0 THEN x
    ELSE LET big == IF x.exp >= y.exp THEN x ELSE y
             small == IF x.exp >= y.exp THEN y ELSE x
             wb == Widen(big)
             ws == ShiftRightJam(Widen(small), big.exp - small.exp)
         IN  IF big.sign = small.sign THEN NormRound(big.sign, WideAdd(wb, ws), big.exp - 3)
             ELSE IF WideLess(wb, ws) THEN NormRound(small.sign, WideSub(ws, wb), big.exp - 3)
             ELSE NormRound(big.sign, WideSub(wb, ws), big.exp - 3)

DSub(x, y) == DAdd(x, DNeg(y))

\* x > y: the rounded difference has the sign of the exact one.
DGt(x, y) == DSub(x, y).sign = 1

\* Python's sum() over floats: left to right from 0, rounding after each addition.
RECURSIVE DSumFrom(_, _)
DSumFrom(acc, s) ==
    IF s = <<>> THEN acc ELSE DSumFrom(DAdd(acc, ToDouble(Head(s))), Tail(s))

---------------------------------------------------------------------------
(* Text: str.split(","), str.strip(), str.upper(), float(). *)

RECURSIVE Split(_)
Split(s) ==
    IF s = <<>> THEN << <<>> >>
    ELSE LET rest == Split(Tail(s))
         IN  IF Head(s) = "," THEN << <<>> >> \o rest
             ELSE << <<Head(s)>> \o Head(rest) >> \o Tail(rest)

RECURSIVE LStrip(_)
LStrip(s) == IF s # <<>> /\ Head(s) = " " THEN LStrip(Tail(s)) ELSE s

RECURSIVE RStrip(_)
RStrip(s) ==
    IF s # <<>> /\ s[Len(s)] = " " THEN RStrip(SubSeq(s, 1, Len(s) - 1)) ELSE s

Strip(s) == RStrip(LStrip(s))

UpperChar(c) == IF c = "a" THEN "A" ELSE IF c = "b" THEN "B" ELSE c

Upper(s) == [i \in 1..Len(s) |-> UpperChar(s[i])]

\* The numeric literals of the model and the number each denotes.  The long
\* literal is 513/1024: with 0.5 it sums to 1 + 1/1024, inside the tolerance.
\* 0.999 is on the boundary as a real number and outside it as a double.
NumericLexemes == {"1", "0.5", "0.6", "0.999", "0.5009765625"}

FloatOfLexeme(l) ==
    CASE l = "1" -> Rat(1, 1)
      [] l = "0.5" -> Rat(1, 2)
      [] l = "0.6" -> Rat(3, 5)
      [] l = "0.999" -> Rat(999, 1000)
      [] l = "0.5009765625" -> Rat(513, 1024)

\* float(tok) raises ValueError unless tok, blanks stripped, is one literal.
FloatParses(tok) == Len(Strip(tok)) = 1 /\ Strip(tok)[1] \in NumericLexemes

Float(tok) == FloatOfLexeme(Strip(tok)[1])

---------------------------------------------------------------------------
(* pandas: a Series is a sequence of floats (one per date); a DataFrame is *)
(* a record [columns, values] with values[j] the Series of columns[j].     *)

Range(s) == {s[i] : i \in 1..Len(s)}

HasDuplicates(s) == Cardinality(Range(s)) # Len(s)

\* Python's sum(), np.dot's inner sum: left to right from 0.
RECURSIVE SumFrom(_, _)
SumFrom(acc, s) == IF s = <<>> THEN acc ELSE SumFrom(Add(acc, Head(s)), Tail(s))

Sum(s) == SumFrom(Zero, s)

\* The entries that are not NaN (skipna=True, the default of every reduction).
RECURSIVE DropNaN(_)
DropNaN(s) ==
    IF s = <<>> THEN <<>>
    ELSE IF IsNaN(Head(s)) THEN DropNaN(Tail(s))
    ELSE <<Head(s)>> \o DropNaN(Tail(s))

\* Series.cumprod(): a NaN entry stays NaN and is skipped by the running product.
RECURSIVE CumProdFrom(_, _)
CumProdFrom(acc, s) ==
    IF s = <<>> THEN <<>>
    ELSE IF IsNaN(Head(s)) THEN <<NaN>> \o CumProdFrom(acc, Tail(s))
    ELSE <<Mul(acc, Head(s))>> \o CumProdFrom(Mul(acc, Head(s)), Tail(s))

CumProd(s) == CumProdFrom(One, s)

MaxNum(x, y) == IF IsNaN(x) \/ IsNaN(y) THEN NaN ELSE IF Lt(x, y) THEN y ELSE x

MinNum(x, y) == IF IsNaN(x) \/ IsNaN(y) THEN NaN ELSE IF Lt(y, x) THEN y ELSE x

\* Series.cummax(): a NaN entry stays NaN and is skipped by the running maximum.
RECURSIVE CumMaxFrom(_, _)
CumMaxFrom(acc, s) ==
    IF s = <<>> THEN <<>>
    ELSE IF IsNaN(Head(s)) THEN <<NaN>> \o CumMaxFrom(acc, Tail(s))
    ELSE <<MaxNum(acc, Head(s))>> \o CumMaxFrom(MaxNum(acc, Head(s)), Tail(s))

CumMax(s) == CumMaxFrom(NInf, s)

RECURSIVE MinFrom(_, _)
MinFrom(acc, s) == IF s = <<>> THEN acc ELSE MinFrom(MinNum(acc, Head(s)), Tail(s))

\* Series.min(): the least entry that is not NaN, NaN when there is none.
SeriesMin(s) == IF DropNaN(s) = <<>> THEN NaN ELSE MinFrom(PInf, DropNaN(s))

\* Series.mean(): NaN when no entry is defined.
SeriesMean(s) ==
    LET v == DropNaN(s)
    IN  IF v = <<>> THEN NaN ELSE Div(Sum(v), <<Len(v), 1>>)

\* Series.std() squared: the sample variance (ddof=1), NaN on fewer than two entries.
SeriesVar(s) ==
    LET v == DropNaN(s)
        m == SeriesMean(s)
        sq == [i \in 1..Len(v) |-> Mul(Sub(v[i], m), Sub(v[i], m))]
    IN  IF Len(v) < 2 THEN NaN ELSE Div(Sum(sq), <<Len(v) - 1, 1>>)

Plus1(s) == [i \in 1..Len(s) |-> Add(One, s[i])]

Minus1(s) == [i \in 1..Len(s) |-> Sub(s[i], One)]

\* fill_method of pct_change(): "pad" is the default of pandas before 3.0,
\* "None" the only behaviour from 3.0 on.
FillMethods == {"pad", "None"}

\* Series.ffill(): a missing entry takes the last entry before it that is not
\* missing; leading missing entries stay.
RECURSIVE FFillFrom(_, _)
FFillFrom(last, s) ==
    IF s = <<>> THEN <<>>
    ELSE IF IsNaN(Head(s)) THEN <<last>> \o FFillFrom(last, Tail(s))
    ELSE <<Head(s)>> \o FFillFrom(Head(s), Tail(s))

FFill(s) == FFillFrom(NaN, s)

\* Series.pct_change(): the prices padded if the fill method says so, then
\* price[t] / price[t-1] - 1, undefined on the first date.
PctChange(s, fill_method) ==
    LET data == IF fill_method = "pad" THEN FFill(s) ELSE s
    IN  [i \in 1..Len(s) |-> IF i = 1 THEN NaN ELSE Sub(Div(data[i], data[i - 1]), One)]

NRows(df) == Len(df.values[1])

\* DataFrame.pct_change(), column by column.
FramePctChange(df, fill_method) ==
    [columns |-> df.columns,
     values |-> [j \in 1..Len(df.values) |-> PctChange(df.values[j], fill_method)]]

\* Series.cumsum(): a NaN entry stays NaN and is skipped by the running sum.
RECURSIVE CumSumFrom(_, _)
CumSumFrom(acc, s) ==
    IF s = <<>> THEN <<>>
    ELSE IF IsNaN(Head(s)) THEN <<NaN>> \o CumSumFrom(acc, Tail(s))
    ELSE <<Add(acc, Head(s))>> \o CumSumFrom(Add(acc, Head(s)), Tail(s))

\* Returns added up instead of compounded.
FrameCumulativeSummed(df) ==
    [columns |-> df.columns,
     values |-> [j \in 1..Len(df.values) |-> CumSumFrom(Zero, df.values[j])]]

\* (1 + df).cumprod() - 1, column by column.
FrameCumulative(df) ==
    [columns |-> df.columns,
     values |-> [j \in 1..Len(df.values) |-> Minus1(CumProd(Plus1(df.values[j])))]]

ColumnOf(df, label) ==
    df.values[CHOOSE j \in 1..Len(df.columns) : df.columns[j] = label]

\* DataFrame.dot(Series) raises ValueError ("matrices are not aligned", or the
\* reindex of a duplicated label) unless columns and index hold the same labels.
DotRaises(df, index) ==
    HasDuplicates(index) \/ HasDuplicates(df.columns) \/ Range(df.columns) # Range(index)

\* The columns added up with the weights left out.
DotUnweighted(df, index, weights) ==
    [t \in 1..NRows(df) |->
        Sum([i \in 1..Len(index) |-> ColumnOf(df, index[i])[t]])]

\* A positional product: column j times the j-th weight, labels ignored.
DotPositional(df, index, weights) ==
    [t \in 1..NRows(df) |->
        Sum([i \in 1..Len(index) |-> Mul(df.values[i][t], weights[i])])]

\* DataFrame.dot(Series): both sides are reindexed to the common labels, so that
\* each column meets the weight of its own label, then multiplied row by row.
Dot(df, index, weights) ==
    [t \in 1..NRows(df) |->
        Sum([i \in 1..Len(index) |-> Mul(ColumnOf(df, index[i])[t], weights[i])])]

---------------------------------------------------------------------------
(* The sidebar inputs. *)

SeqsUpTo(S, n) == UNION {[1..k -> S] : k \in 0..n}

EtfsAlphabet == {",", " ", "a", "B"}

\* etfs: what the user typed into the ticker box.
EtfsTexts == SeqsUpTo(EtfsAlphabet, MaxEtfsLen)

Periods == {"6mo", "1y", "2y", "5y"}

WeightsAlphabet == {",", " ", "x"} \cup NumericLexemes

\* weights_input: what the user typed into the weight box.  A numeric literal is
\* a maximal run of numeric characters, so no two of them are adjacent.
WeightsTexts ==
    {s \in SeqsUpTo(WeightsAlphabet, MaxWeightsLen) :
        \A i \in 1..(Len(s) - 1) :
            ~(s[i] \in NumericLexemes /\ s[i + 1] \in NumericLexemes)}

\* Line 26.
ParseEtfs(etfs) == [i \in 1..Len(Split(etfs)) |-> Upper(Strip(Split(etfs)[i]))]

\* Line 31 completes only if float() accepts every token.
WeightsParse(weights_input) ==
    \A i \in 1..Len(Split(weights_input)) : FloatParses(Split(weights_input)[i])

\* Line 31.
ParseWeights(weights_input) ==
    [i \in 1..Len(Split(weights_input)) |-> Float(Split(weights_input)[i])]

Tolerance == Rat(1, 1000)

\* The literals 1 and 0.001 of line 38 as doubles.
DOne == ToDouble(One)

DTolerance == ToDouble(Tolerance)

\* Line 34.
CountMismatch(weights, etfs) == Len(weights) # Len(etfs)

\* Line 38, in binary64 as the script computes it: each weight is the double
\* nearest to its literal, the sum and the difference are rounded, and 0.001 is
\* the double nearest to 1/1000.  A nan or infinite weight makes the sum nan or
\* infinite whatever the rounding.
SumOutOfTolerance(weights) ==
    IF \A i \in 1..Len(weights) : IsFinite(weights[i])
    THEN DGt(DAbs(DSub(DSumFrom(DZero, weights), DOne)), DTolerance)
    ELSE Gt(AbsNum(Sub(Sum(weights), One)), Tolerance)

---------------------------------------------------------------------------
(* The state before the script has run. *)

NoFrame == [columns |-> <<>>, values |-> <<>>]

NoSharpe == [class |-> "unset", num |-> NaN, den_sq |-> NaN]

NoMetrics ==
    [portfolio_volatility_sq |-> NaN, portfolio_annual_return |-> NaN,
     sharpe_ratio |-> NoSharpe, max_drawdown |-> NaN]

Init ==
    /\ pc = "tickers"
    /\ error = ""
    /\ etf_list = <<>>
    /\ period = ""
    /\ weights_list = <<>>
    /\ messages = <<>>
    /\ requests = <<>>
    /\ adj_close = NoFrame
    /\ daily_returns = NoFrame
    /\ cumulative_returns = NoFrame
    /\ portfolio_daily_returns = <<>>
    /\ portfolio_cumulative_returns = <<>>
    /\ metrics = NoMetrics
    /\ rendered = <<>>

\* An uncaught exception ends the run.
Crash(what) ==
    /\ pc' = "crashed"
    /\ error' = what

\* Lines 25-26: the ticker box, split, stripped and upper-cased.
CollectTickers ==
    /\ pc = "tickers"
    /\ \E etfs \in EtfsTexts : etf_list' = ParseEtfs(etfs)
    /\ pc' = "period"
    /\ UNCHANGED <<error, period, weights_list, messages, requests, adj_close,
                   daily_returns, cumulative_returns, portfolio_daily_returns,
                   portfolio_cumulative_returns, metrics, rendered>>

\* Line 28: the period selector.
SelectPeriod ==
    /\ pc = "period"
    /\ \E p \in Periods : period' = p
    /\ pc' = "weights"
    /\ UNCHANGED <<error, etf_list, weights_list, messages, requests, adj_close,
                   daily_returns, cumulative_returns, portfolio_daily_returns,
                   portfolio_cumulative_returns, metrics, rendered>>

\* Lines 30-31: the weight box, split and converted; float() may raise.
CollectWeights ==
    /\ pc = "weights"
    /\ \E weights_input \in WeightsTexts :
        IF WeightsParse(weights_input)
        THEN /\ weights_list' = ParseWeights(weights_input)
             /\ pc' = "validate"
             /\ error' = error
        ELSE /\ weights_list' = weights_list
             /\ Crash("ValueError: could not convert string to float")
    /\ UNCHANGED <<etf_list, period, messages, requests, adj_close, daily_returns,
                   cumulative_returns, portfolio_daily_returns,
                   portfolio_cumulative_returns, metrics, rendered>>

\* The messages without the st.stop() after them.
ValidateNoStop ==
    /\ pc = "validate"
    /\ IF CountMismatch(weights_list, etf_list)
       THEN messages' = Append(messages, "Number of weights must match number of ETFs")
       ELSE IF SumOutOfTolerance(weights_list)
       THEN messages' = Append(messages, "Weights must sum to 1. Please adjust.")
       ELSE messages' = messages
    /\ pc' = "download"
    /\ UNCHANGED <<error, etf_list, period, weights_list, requests, adj_close,
                   daily_returns, cumulative_returns, portfolio_daily_returns,
                   portfolio_cumulative_returns, metrics, rendered>>

\* Lines 33-42: st.error and st.stop on a bad weight vector, else weights_series.
Validate ==
    /\ pc = "validate"
    /\ IF CountMismatch(weights_list, etf_list)
       THEN /\ messages' = Append(messages, "Number of weights must match number of ETFs")
            /\ pc' = "stopped"
       ELSE IF SumOutOfTolerance(weights_list)
       THEN /\ messages' = Append(messages, "Weights must sum to 1. Please adjust.")
            /\ pc' = "stopped"
       ELSE /\ messages' = messages
            /\ pc' = "download"
    /\ UNCHANGED <<error, etf_list, period, weights_list, requests, adj_close,
                   daily_returns, cumulative_returns, portfolio_daily_returns,
                   portfolio_cumulative_returns, metrics, rendered>>

---------------------------------------------------------------------------
(* The market data provider.  yf.download is outside the script; what it   *)
(* can hand back is the environment's choice: an exception, a table with   *)
(* no "Close" block, or a "Close" block with one column per distinct       *)
(* ticker, in the provider's own column order, with no rows at all or      *)
(* with NumDates rows.                                                     *)

\* A price history: the given first prices, the last of them held from then on.
Held(prices, rows) ==
    [t \in 1..rows |-> <<prices[IF t < Len(prices) THEN t ELSE Len(prices)], 1>>]

FlatColumn(rows) == Held(<<1>>, rows)

GrowthColumn(rows) == Held(<<1, 2, 4>>, rows)

\* A ticker the provider does not know: a column of missing values.
UnknownColumn(rows) == [t \in 1..rows |-> NaN]

\* A ticker with no price on the second date: 1, missing, then 2.
GapColumn(rows) ==
    [t \in 1..rows |-> IF t = 1 THEN One ELSE IF t = 2 THEN NaN ELSE <<2, 1>>]

\* A ticker listed on the second date: missing, 1, then 2.
LateColumn(rows) ==
    [t \in 1..rows |-> IF t = 1 THEN NaN ELSE IF t = 2 THEN One ELSE <<2, 1>>]

\* A ticker with no price after the second date: 1, 2, then missing.
HaltedColumn(rows) ==
    [t \in 1..rows |-> IF t = 1 THEN One ELSE IF t = 2 THEN <<2, 1>> ELSE NaN]

ProviderColumns(rows) ==
    {FlatColumn(rows), GrowthColumn(rows), UnknownColumn(rows), GapColumn(rows)}

Orders(S) == {c \in [1..Cardinality(S) -> S] : Range(c) = S}

\* A failed request tried again, once.
DownloadWithRetry ==
    /\ pc = "download"
    /\ requests' = Append(requests, [tickers |-> etf_list, period |-> period])
    /\ \/ /\ Len(requests) < 1
          /\ pc' = "download"
          /\ error' = error
          /\ adj_close' = adj_close
       \/ /\ Len(requests) >= 1
          /\ Crash("download failed")
          /\ adj_close' = adj_close
       \/ /\ \E cols \in Orders(Range(etf_list)), rows \in {0, NumDates} :
                \E vals \in [1..Len(cols) -> ProviderColumns(rows)] :
                    adj_close' = [columns |-> cols, values |-> vals]
          /\ pc' = "returns"
          /\ error' = error
    /\ UNCHANGED <<etf_list, period, weights_list, messages, daily_returns,
                   cumulative_returns, portfolio_daily_returns,
                   portfolio_cumulative_returns, metrics, rendered>>

\* Lines 44-46: one batched request, then the "Close" block of the answer.
Download ==
    /\ pc = "download"
    /\ requests' = Append(requests, [tickers |-> etf_list, period |-> period])
    /\ \/ /\ Crash("download failed")
          /\ adj_close' = adj_close
       \/ /\ Crash("KeyError: 'Close'")
          /\ adj_close' = adj_close
       \/ /\ \E cols \in Orders(Range(etf_list)), rows \in {0, NumDates} :
                \E vals \in [1..Len(cols) -> ProviderColumns(rows)] :
                    adj_close' = [columns |-> cols, values |-> vals]
          /\ pc' = "returns"
          /\ error' = error
    /\ UNCHANGED <<etf_list, period, weights_list, messages, daily_returns,
                   cumulative_returns, portfolio_daily_returns,
                   portfolio_cumulative_returns, metrics, rendered>>

\* Lines 48-50, under either pandas release.
ComputeReturns ==
    /\ pc = "returns"
    /\ \E fill_method \in FillMethods :
          /\ daily_returns' = FramePctChange(adj_close, fill_method)
          /\ cumulative_returns' = FrameCumulative(FramePctChange(adj_close, fill_method))
    /\ pc' = "portfolio"
    /\ UNCHANGED <<error, etf_list, period, weights_list, messages, requests,
                   adj_close, portfolio_daily_returns, portfolio_cumulative_returns,
                   metrics, rendered>>

\* Lines 52-54; weights_series (line 42) is weights_list indexed by etf_list.
PortfolioReturns ==
    /\ pc = "portfolio"
    /\ IF DotRaises(daily_returns, etf_list)
       THEN /\ Crash("ValueError: matrices are not aligned")
            /\ UNCHANGED <<portfolio_daily_returns, portfolio_cumulative_returns>>
       ELSE /\ portfolio_daily_returns' = Dot(daily_returns, etf_list, weights_list)
            /\ portfolio_cumulative_returns' =
                   Minus1(CumProd(Plus1(Dot(daily_returns, etf_list, weights_list))))
            /\ pc' = "metrics"
            /\ error' = error
    /\ UNCHANGED <<etf_list, period, weights_list, messages, requests, adj_close,
                   daily_returns, cumulative_returns, metrics, rendered>>

TradingDays == 252

\* Line 57, squared: (std * sqrt(252))^2 = var * 252.
PortfolioVolatilitySq(returns) == Mul(SeriesVar(returns), <<TradingDays, 1>>)

\* Line 58.
PortfolioAnnualReturn(returns) == Mul(SeriesMean(returns), <<TradingDays, 1>>)

\* A zero volatility special-cased to a Sharpe ratio of 0.
SharpeRatioGuarded(annual_return, volatility_sq) ==
    LET q == IF IsZero(volatility_sq) THEN Zero ELSE Div(annual_return, volatility_sq)
    IN  [class |-> IF IsNaN(q) THEN "nan"
                   ELSE IF q = PInf THEN "inf"
                   ELSE IF q = NInf THEN "-inf"
                   ELSE "finite",
         num |-> annual_return,
         den_sq |-> volatility_sq]

\* Line 59: a numpy float division, so a zero volatility gives nan or +-inf.
SharpeRatio(annual_return, volatility_sq) ==
    LET q == Div(annual_return, volatility_sq)
    IN  [class |-> IF IsNaN(q) THEN "nan"
                   ELSE IF q = PInf THEN "inf"
                   ELSE IF q = NInf THEN "-inf"
                   ELSE "finite",
         num |-> annual_return,
         den_sq |-> volatility_sq]

RECURSIVE CumMinFrom(_, _)
CumMinFrom(acc, s) ==
    IF s = <<>> THEN <<>>
    ELSE IF IsNaN(Head(s)) THEN <<NaN>> \o CumMinFrom(acc, Tail(s))
    ELSE <<MinNum(acc, Head(s))>> \o CumMinFrom(MinNum(acc, Head(s)), Tail(s))

\* The running trough in place of the running peak.
RollingMin(returns) == CumMinFrom(PInf, CumProd(Plus1(returns)))

\* Line 60.
RollingMax(returns) == CumMax(CumProd(Plus1(returns)))

\* Line 61.
Drawdown(returns) ==
    [t \in 1..Len(returns) |->
        Sub(Div(CumProd(Plus1(returns))[t], RollingMax(returns)[t]), One)]

\* Line 62.
MaxDrawdown(returns) == SeriesMin(Drawdown(returns))

\* Lines 56-62.
RiskMetrics ==
    /\ pc = "metrics"
    /\ metrics' =
           [portfolio_volatility_sq |-> PortfolioVolatilitySq(portfolio_daily_returns),
            portfolio_annual_return |-> PortfolioAnnualReturn(portfolio_daily_returns),
            sharpe_ratio |-> SharpeRatio(PortfolioAnnualReturn(portfolio_daily_returns),
                                         PortfolioVolatilitySq(portfolio_daily_returns)),
            max_drawdown |-> MaxDrawdown(portfolio_daily_returns)]
    /\ pc' = "display"
    /\ UNCHANGED <<error, etf_list, period, weights_list, messages, requests,
                   adj_close, daily_returns, cumulative_returns,
                   portfolio_daily_returns, portfolio_cumulative_returns, rendered>>

MetricCards ==
    <<"metric: Annualized Return", "metric: Annualized Volatility",
      "metric: Sharpe Ratio", "metric: Max Drawdown">>

Charts == <<"chart: Cumulative Returns", "chart: Portfolio Cumulative Return">>

Exports ==
    <<"export: etf_prices.csv", "export: etf_daily_returns.csv",
      "export: portfolio_daily_returns.csv">>

AllOutputs == MetricCards \o Charts \o Exports

Render(outputs, next) ==
    /\ rendered' = rendered \o outputs
    /\ pc' = next
    /\ UNCHANGED <<error, etf_list, period, weights_list, messages, requests,
                   adj_close, daily_returns, cumulative_returns,
                   portfolio_daily_returns, portfolio_cumulative_returns, metrics>>

\* Lines 64-70: the format specs accept nan and inf, so no card can fail.
DisplayMetrics ==
    /\ pc = "display"
    /\ Render(MetricCards, "plot_etfs")

\* A chart that fails after the metric cards are on the page.
PlotEtfsFails ==
    /\ pc = "plot_etfs"
    /\ Crash("plot failed")
    /\ UNCHANGED <<etf_list, period, weights_list, messages, requests, adj_close,
                   daily_returns, cumulative_returns, portfolio_daily_returns,
                   portfolio_cumulative_returns, metrics, rendered>>

\* Lines 72-79.
PlotEtfs ==
    /\ pc = "plot_etfs"
    /\ Render(<<Charts[1]>>, "plot_portfolio")

\* Lines 81-87.
PlotPortfolio ==
    /\ pc = "plot_portfolio"
    /\ Render(<<Charts[2]>>, "exports")

\* Lines 89-93.
DownloadButtons ==
    /\ pc = "exports"
    /\ Render(Exports, "done")

Next ==
    \/ CollectTickers
    \/ SelectPeriod
    \/ CollectWeights
    \/ Validate
    \/ Download
    \/ ComputeReturns
    \/ PortfolioReturns
    \/ RiskMetrics
    \/ DisplayMetrics
    \/ PlotEtfs
    \/ PlotPortfolio
    \/ DownloadButtons

Spec == Init /\ [][Next]_vars

---------------------------------------------------------------------------
(* The computational core (lines 48-62) on a wide range of price tables:   *)
(* the runs start where line 46 has just stored the provider's answer,     *)
(* with a weight vector that has passed validation.                        *)

TickerA == <<"A">>

TickerB == <<"B">>

CalcTickers == {<<TickerA>>, <<TickerA, TickerB>>}

\* Single weights are unconstrained; only their count and sum are validated.
CalcWeightVectors ==
    {<<Rat(1, 1)>>, <<Rat(1, 2), Rat(1, 2)>>, <<Rat(1, 4), Rat(3, 4)>>,
     <<Rat(2, 1), Rat(-1, 1)>>}

CalcWeights(etfs) ==
    {w \in CalcWeightVectors : ~CountMismatch(w, etfs) /\ ~SumOutOfTolerance(w)}

CalcPrices == {<<1, 1>>, <<2, 1>>, <<4, 1>>}

\* Returns of 1% and -2%, then flat; and of 3% and 1%, then flat.
ScenarioColumnA(rows) == Held(<<10000, 10100, 9898>>, rows)

ScenarioColumnB(rows) == Held(<<10000, 10300, 10403>>, rows)

CalcColumns(rows) ==
    [1..rows -> CalcPrices]
    \cup {UnknownColumn(rows), GapColumn(rows), LateColumn(rows), HaltedColumn(rows)}

CalcTables(etfs) ==
    {[columns |-> cols, values |-> vals] :
        cols \in Orders(Range(etfs)), vals \in [1..Len(etfs) -> CalcColumns(NumDates)]}
    \cup
    (IF Len(etfs) = 2
     THEN {[columns |-> <<TickerA, TickerB>>,
            values |-> <<ScenarioColumnA(NumDates), ScenarioColumnB(NumDates)>>],
           [columns |-> <<TickerB, TickerA>>,
            values |-> <<ScenarioColumnB(NumDates), ScenarioColumnA(NumDates)>>]}
     ELSE {})

InitCalc ==
    /\ pc = "returns"
    /\ error = ""
    /\ etf_list \in CalcTickers
    /\ period = "6mo"
    /\ weights_list \in CalcWeights(etf_list)
    /\ messages = <<>>
    /\ requests = <<[tickers |-> etf_list, period |-> period]>>
    /\ adj_close \in CalcTables(etf_list)
    /\ daily_returns = NoFrame
    /\ cumulative_returns = NoFrame
    /\ portfolio_daily_returns = <<>>
    /\ portfolio_cumulative_returns = <<>>
    /\ metrics = NoMetrics
    /\ rendered = <<>>

NextCalc ==
    \/ ComputeReturns
    \/ PortfolioReturns
    \/ RiskMetrics

SpecCalc == InitCalc /\ [][NextCalc]_vars

---------------------------------------------------------------------------
(* Vocabulary of the properties. *)

ParseError == "ValueError: could not convert string to float"

\* The run has left the input and validation lines behind.
PastValidation == pc \notin {"tickers", "period", "weights", "validate"}

\* The run has executed line 45.
PastDownload ==
    \/ pc \in {"returns", "portfolio", "metrics", "display", "plot_etfs",
               "plot_portfolio", "exports", "done"}
    \/ pc = "crashed" /\ error # ParseError

RenderStages == {"display", "plot_etfs", "plot_portfolio", "exports", "done"}

Ended == pc \in {"done", "stopped", "crashed"}

\* The next rendering step, whichever it is.
RenderNext == DisplayMetrics \/ PlotEtfs \/ PlotPortfolio \/ DownloadButtons

\* The weight vector the run read fails the validation of lines 34-40.
ValidationFails ==
    CountMismatch(weights_list, etf_list) \/ SumOutOfTolerance(weights_list)

\* The cumulative wealth curve on the dates where it is defined.
Wealth == DropNaN(CumProd(Plus1(portfolio_daily_returns)))

NonDecreasing(w) == \A i \in 1..(Len(w) - 1) : Leq(w[i], w[i + 1])

\* The product of 1 + s[i] over the dates i <= t on which s[i] is defined.
RECURSIVE Compounded(_, _)
Compounded(s, t) ==
    IF t = 0 THEN One
    ELSE IF IsNaN(s[t]) THEN Compounded(s, t - 1)
    ELSE Mul(Compounded(s, t - 1), Add(One, s[t]))

\* The weight the user entered for the ticker with this label.
WeightOfLabel(label) ==
    weights_list[CHOOSE i \in 1..Len(etf_list) : etf_list[i] = label]

\* The sum, over the provider's columns, of return times the ticker's weight.
WeightedReturn(t) ==
    Sum([j \in 1..Len(daily_returns.columns) |->
            Mul(daily_returns.values[j][t], WeightOfLabel(daily_returns.columns[j]))])

NoMissing(series) == \A t \in 1..Len(series) : ~IsNaN(series[t])

---------------------------------------------------------------------------
(* C1 *)

\* C1 as claimed: once the inputs are read, the run has halted with a
\* validation message exactly when the weight count differs from the ticker
\* count or the weight sum is off by more than 0.001, and no run ends in an
\* uncaught parse failure instead.
C1_ValidationIffMismatchOrSum ==
    PastValidation =>
        /\ error # ParseError
        /\ (pc = "stopped" /\ messages # <<>>) <=> ValidationFails

---------------------------------------------------------------------------
(* C2 *)

\* C2: a run whose weights fail validation stops with a message before any
\* request to the provider, and makes none afterwards: it has ended.
C2_NoFetchAfterValidationFailure ==
    /\ (PastValidation /\ error # ParseError /\ ValidationFails) =>
           /\ pc = "stopped"
           /\ messages # <<>>
           /\ requests = <<>>
    /\ pc = "stopped" => requests = <<>> /\ ~ENABLED Next

\* Weights 0.5, 0.6 for two tickers: stopped, nothing requested.
C2_Witness ==
    /\ pc = "stopped"
    /\ Len(etf_list) = 2
    /\ weights_list = <<Rat(1, 2), Rat(3, 5)>>
    /\ requests = <<>>

---------------------------------------------------------------------------
(* C3 *)

\* C3: a completed run has rendered the four cards, two charts and three
\* exports, a run halted by a failure has rendered none of them, and a run
\* that has rendered some of them but not all can always render the next.
C3_NoPartialSuccess ==
    /\ pc = "done" => rendered = AllOutputs
    /\ pc \in {"stopped", "crashed"} => rendered = <<>>
    /\ rendered # <<>> => pc \in RenderStages
    /\ (pc \in RenderStages /\ pc # "done") => ENABLED RenderNext

C3_Witness ==
    /\ pc = "done"
    /\ rendered = AllOutputs
    /\ Len(rendered) = 9

---------------------------------------------------------------------------
(* C4 *)

\* The provider raised, or its answer has no "Close" block.
FetchRaised == error \in {"download failed", "KeyError: 'Close'"}

\* The provider answered with no rows, or with an all-missing column.
FetchReturnedNothing ==
    /\ adj_close # NoFrame
    /\ \/ NRows(adj_close) = 0
       \/ \E j \in 1..Len(adj_close.values) : adj_close.values[j] = UnknownColumn(NumDates)

\* C4 as claimed: after a fetch error of any kind (provider unreachable,
\* unknown ticker, empty series) no metric, card, chart or export follows.
C4_FetchErrorTerminates ==
    (FetchRaised \/ FetchReturnedNothing) => rendered = <<>>

---------------------------------------------------------------------------
(* C5 *)

\* C5 as claimed: a computed maximum drawdown is at most 0, and is 0 only
\* when the cumulative wealth curve never decreases.
C5_DrawdownZeroOnlyIfMonotone ==
    (pc = "display" /\ ~IsNaN(metrics.max_drawdown)) =>
        /\ Leq(metrics.max_drawdown, Zero)
        /\ metrics.max_drawdown = Zero => NonDecreasing(Wealth)

\* C5 amended: a computed maximum drawdown is at most 0; and when the wealth
\* curve starts positive (the first defined portfolio return exceeds -1) the
\* maximum drawdown is defined, and is 0 only when the curve never decreases.
C5_DrawdownOfPositiveWealth ==
    pc = "display" =>
        /\ ~IsNaN(metrics.max_drawdown) => Leq(metrics.max_drawdown, Zero)
        /\ (Wealth # <<>> /\ Gt(Wealth[1], Zero)) =>
               /\ ~IsNaN(metrics.max_drawdown)
               /\ metrics.max_drawdown = Zero => NonDecreasing(Wealth)

\* A rising wealth curve that starts positive, with maximum drawdown 0.
C5_Witness ==
    /\ pc = "display"
    /\ Len(Wealth) >= 2
    /\ Gt(Wealth[1], Zero)
    /\ Lt(Wealth[1], Wealth[2])
    /\ metrics.max_drawdown = Zero

---------------------------------------------------------------------------
(* C6 *)

\* Tickers A, B at 50% each; A returns 1% then -2%, B returns 3% then 1%.
Scenario ==
    /\ etf_list = <<TickerA, TickerB>>
    /\ weights_list = <<Rat(1, 2), Rat(1, 2)>>
    /\ daily_returns # NoFrame
    /\ SubSeq(ColumnOf(daily_returns, TickerA), 2, 3) = <<Rat(1, 100), Rat(-2, 100)>>
    /\ SubSeq(ColumnOf(daily_returns, TickerB), 2, 3) = <<Rat(3, 100), Rat(1, 100)>>

\* C6: on every date the portfolio return is the sum over the provider's
\* columns of the column's return times the weight entered for that ticker,
\* the cumulative return compounds it, and the scenario gives 0.02, -0.005
\* and 0.02, 0.0149.
C6_WeightedByTicker ==
    pc \in {"metrics", "display"} =>
        /\ \A t \in 1..Len(portfolio_daily_returns) :
              /\ portfolio_daily_returns[t] = WeightedReturn(t)
              /\ portfolio_cumulative_returns[t] =
                     (IF IsNaN(portfolio_daily_returns[t]) THEN NaN
                      ELSE Sub(Compounded(portfolio_daily_returns, t), One))
        /\ Scenario =>
              /\ SubSeq(portfolio_daily_returns, 2, 3) = <<Rat(2, 100), Rat(-5, 1000)>>
              /\ SubSeq(portfolio_cumulative_returns, 2, 3) = <<Rat(2, 100), Rat(149, 10000)>>

\* The scenario, with the provider's columns in the order B, A.
C6_Witness ==
    /\ pc = "metrics"
    /\ Scenario
    /\ daily_returns.columns = <<TickerB, TickerA>>
    /\ portfolio_daily_returns[3] = Rat(-5, 1000)
    /\ portfolio_cumulative_returns[3] = Rat(149, 10000)

---------------------------------------------------------------------------
(* C7 *)

\* C7: with weights summing exactly to 1, on every date on which all tickers
\* have the same return r the portfolio return is r.
C7_ConstantReturn ==
    (pc \in {"metrics", "display"} /\ Sum(weights_list) = One) =>
        \A t \in 1..Len(portfolio_daily_returns) :
            LET r == daily_returns.values[1][t]
            IN  (/\ IsFinite(r)
                 /\ \A j \in 1..Len(daily_returns.values) : daily_returns.values[j][t] = r)
                => portfolio_daily_returns[t] = r

\* Two tickers that both double every day, held at 200% and -100%.
C7_Witness ==
    /\ pc = "metrics"
    /\ weights_list = <<Rat(2, 1), Rat(-1, 1)>>
    /\ \A t \in 2..NumDates :
          /\ daily_returns.values[1][t] = One
          /\ daily_returns.values[2][t] = One
          /\ portfolio_daily_returns[t] = One

---------------------------------------------------------------------------
(* C8 *)

\* C8: for a price column with no missing value, the first daily and
\* cumulative returns are undefined and on every later date the cumulative
\* return plus 1 is the product of 1 + daily return over the dates so far,
\* which is the price relative to the first price.
C8_CumulativeIsCompounded ==
    pc \in {"portfolio", "metrics", "display"} =>
        \A j \in 1..Len(adj_close.values) :
            (NoMissing(adj_close.values[j]) /\ NRows(adj_close) > 0) =>
                /\ IsNaN(daily_returns.values[j][1])
                /\ IsNaN(cumulative_returns.values[j][1])
                /\ \A t \in 2..NRows(adj_close) :
                      /\ Add(cumulative_returns.values[j][t], One) =
                             Compounded(daily_returns.values[j], t)
                      /\ Add(cumulative_returns.values[j][t], One) =
                             Div(adj_close.values[j][t], adj_close.values[j][1])

\* A price that doubles and then falls back: +100%, then -50%, 0% in all.
C8_Witness ==
    /\ pc = "portfolio"
    /\ \E j \in 1..Len(adj_close.values) :
          /\ SubSeq(adj_close.values[j], 1, 3) = <<<<1, 1>>, <<2, 1>>, <<1, 1>>>>
          /\ SubSeq(daily_returns.values[j], 2, 3) = <<One, Rat(-1, 2)>>
          /\ SubSeq(cumulative_returns.values[j], 2, 3) = <<One, Zero>>

---------------------------------------------------------------------------
(* C9 *)

ZeroVolatility == metrics.portfolio_volatility_sq = Zero

AllZeroReturns ==
    \A t \in 1..Len(portfolio_daily_returns) :
        IsNaN(portfolio_daily_returns[t]) \/ portfolio_daily_returns[t] = Zero

\* C9: when the volatility is 0 the Sharpe ratio is nan or +-inf, the maximum
\* drawdown of an all-zero series is 0, and the run is not halted: it is in
\* the rendering lines, can take its next step, and ends with every output
\* rendered.
C9_ZeroVolatilityRenders ==
    ZeroVolatility =>
        /\ pc \in RenderStages
        /\ metrics.sharpe_ratio.class \in {"nan", "inf", "-inf"}
        /\ AllZeroReturns => metrics.max_drawdown = Zero
        /\ pc # "done" => ENABLED RenderNext
        /\ pc = "done" => rendered = AllOutputs

\* A flat portfolio, rendered in full.
C9_Witness ==
    /\ pc = "done"
    /\ ZeroVolatility
    /\ AllZeroReturns
    /\ Len(DropNaN(portfolio_daily_returns)) >= 2
    /\ metrics.sharpe_ratio.class = "nan"
    /\ metrics.max_drawdown = Zero
    /\ rendered = AllOutputs

---------------------------------------------------------------------------
(* C10 *)

\* C10: the provider is asked at most once, for the whole ticker list and the
\* selected period, and exactly once by the time line 45 has run; a failed
\* request ends the run.
C10_SingleBatchedRequest ==
    /\ Len(requests) = (IF PastDownload THEN 1 ELSE 0)
    /\ \A i \in 1..Len(requests) :
          requests[i] = [tickers |-> etf_list, period |-> period]
    /\ (pc = "crashed" /\ FetchRaised) => ~ENABLED Next

\* A request that failed: one request, and the run over.
C10_Witness ==
    /\ pc = "crashed"
    /\ error = "download failed"
    /\ Len(requests) = 1
    /\ Len(requests[1].tickers) = 2

===========================================================================
